---- MODULE Spec2Model ----
(***************************************************************************)
(* Hover preview of a media card: the Card component (debounced hover,     *)
(* accent extraction, conditional mount of the popup) and the CardPopup    *)
(* component (placement effect, metadata fetch effect, genre truncation,   *)
(* animation-end handler).                                                 *)
(***************************************************************************)
EXTENDS Integers, Sequences, FiniteSets, TLC

(* ------------------------------ bounds -------------------------------- *)
\* Number of setTimeout handles a run may allocate.
MaxTimers == 2
\* Number of metadata requests one mounted panel may issue, and of requests
\* in flight at a time.
MaxFetches == 2
\* Length of the longest genre list in the catalog.
MaxGenres == 4
\* Granularity of the clock, in milliseconds.
TickMs == 300
\* Longest duration of the catalog of the rendering specification, in hours.
MaxHours == 100

(* --------------------------- program constants ------------------------ *)
\* setTimeout(..., 600)
D == 600
\* the value of a state field that was never assigned
UNDEFINED == -1
\* hoverTimeout: null
NULL == 0
\* res.status !== 200
HTTP_OK == 200
\* genres.length > 3 / genres.length = 3
GenreLimit == 3
\* window.innerWidth - 5
Margin == 5

\* e.animationName !== "CardPopupHide"
HideAnimation == "CardPopupHide"
\* an animation of a child element, whose end event bubbles to the popup root
OtherAnimation == "fa-spin"

\* accent: { background: "#f7931e", text: "#ffffff" }
FallbackAccent == [background |-> "#f7931e", text |-> "#ffffff"]

VARIABLES
    \* Card.state
    hovering, hoverTimeout, posterBlob, accentDone, accent,
    \* the timers created by setTimeout, and the position of the
    \* renderCardPopout call each one started
    timers,
    \* Card.props.data, the caller-supplied summary
    data,
    \* the hook state of the mounted CardPopup instance
    popup,
    \* the requests of the fetch effect still in flight, in issue order
    fetches,
    \* observation: the genre list as the caller supplied it, the last
    \* pointer event, whether the panel's exit animation is playing
    supplied, lastEvent, hideAnim

vars == <<hovering, hoverTimeout, posterBlob, accentDone, accent, timers,
          data, popup, fetches, supplied, lastEvent, hideAnim>>

(* ------------------------------ values -------------------------------- *)
\* An optional value: <<>> is undefined, <<v>> is the value v.
None == <<>>
Some(v) == <<v>>

Timers == 1..MaxTimers
\* item ids the parent can hand to the card
Ids == {1, 2}
\* object URLs handed out by URL.createObjectURL
Blobs == {1}
\* the summaries of the catalog: item 1 has MaxGenres genres, item 2 has
\* two less
GenresOf(id) == [i \in 1..(MaxGenres + 2 - 2 * id) |-> i]
Summaries == {[id |-> id, genres |-> GenresOf(id)] : id \in Ids}
\* measured left edge of the panel, its width, and window.innerWidth
Xs == {100, 1000}
Widths == {300}
Viewports == {1200}

\* this.state.hoverTimeout != null (loose inequality: undefined and null alike)
IsNullish(h) == h \in {UNDEFINED, NULL}

\* color.Vibrant.getHex() / color.Vibrant.getTitleTextColor() of a poster
VibrantAccent(blob) == [background |-> "#c0392b", text |-> "#000000"]

\* A timer and the call of renderCardPopout it starts: unused, pending (left
\* ms to go; cut: a toggle arrived while it counted down), cancelled,
\* awaiting (the call is suspended on the palette of poster blob), done (the
\* call is over, returned or rejected).
NewTimer == [st |-> "unused", left |-> 0, blob |-> 0, cut |-> FALSE]
Over(st) == [NewTimer EXCEPT !.st = st]

\* the hook state of a CardPopup as useState initialises it, the genre list
\* it rendered, the number of times its placement effect measured, the
\* number of requests its fetch effect issued and how the continuation of
\* the last answered one ended
NoPopup == [overflowing |-> FALSE, direction |-> "card-popup-right",
            mediaVersions |-> Some(<<>>), genres |-> <<>>, measures |-> 0,
            issued |-> 0, last |-> "none"]

\* {this.state.hovering && <CardPopup .../>}
Mounted == hovering

(* ------------------------------ CardPopup ----------------------------- *)
\* genres.length = n that keeps the last n entries instead of the first
SetLengthKeepsTail(genres, n) ==
    IF n <= Len(genres) THEN SubSeq(genres, Len(genres) - n + 1, Len(genres))
    ELSE genres

\* genres.length = n on a JavaScript array: a shorter length drops the tail
SetLength(genres, n) ==
    IF n <= Len(genres) THEN SubSeq(genres, 1, n) ELSE genres

\* if (genres.length > 3) { genres.length = 3 }: the array is props.data.genres
TruncateGenres(genres) ==
    IF Len(genres) > GenreLimit THEN SetLength(genres, GenreLimit) ELSE genres

\* the comparison that counts touching the margin as overflowing
OverflowsAtEdge(x, width, innerWidth) == x + width >= innerWidth - Margin

\* const overflowing = (x + width > window.innerWidth - 5)
Overflows(x, width, innerWidth) == x + width > innerWidth - Margin

\* The placement effect, deps [props.popup, overflowing]: it runs after the
\* mount with measurement x1; when it sets overflowing it runs once more on
\* the re-rendered panel (measurement x2), where the state no longer changes.
PlacementEffect(p, x1, x2, width, innerWidth) ==
    IF Overflows(x1, width, innerWidth)
    THEN [p EXCEPT !.overflowing = TRUE, !.direction = "card-popup-left",
                   !.measures = 2]
    ELSE [p EXCEPT !.measures = 1]

\* The fetch effect, deps [id, token]: one request per run. Its continuation
\* closes over the setMediaVersions of the instance that issued it (live:
\* that instance is still the mounted one); seq is its issue number there.
IssueFetch(id, seq) ==
    Append(fetches, [live |-> TRUE, id |-> id, seq |-> seq])

\* Card.render with hovering true for the first time: <CardPopup/> is
\* created with fresh hook state, renders (truncating data.genres in place),
\* then its two effects run.
MountPopup(x1, x2, width, innerWidth) ==
    /\ Len(fetches) < MaxFetches
    /\ popup' = PlacementEffect(
                    [NoPopup EXCEPT !.genres = TruncateGenres(data.genres),
                                    !.issued = 1],
                    x1, x2, width, innerWidth)
    /\ data' = [data EXCEPT !.genres = TruncateGenres(data.genres)]
    /\ fetches' = IssueFetch(data.id, 1)

\* Card.render with hovering false: the popup element is dropped.
UnmountPopup ==
    /\ popup' = NoPopup
    /\ fetches' = [i \in 1..Len(fetches) |->
                       [fetches[i] EXCEPT !.live = FALSE, !.seq = 0]]
    /\ UNCHANGED data

\* this.setState({hovering: h}) followed by the re-render of the card
SetHovering(h, x1, x2, width, innerWidth) ==
    /\ hovering' = h
    /\ IF h /\ ~hovering THEN MountPopup(x1, x2, width, innerWidth)
       ELSE IF ~h /\ hovering THEN UnmountPopup
       ELSE UNCHANGED <<popup, data, fetches>>

\* The exit animation of the panel: it plays on the mounted panel from the
\* moment a close is requested of it, and ends with the panel.
HideAnimNext(starts) ==
    hideAnim' = (hovering /\ hovering' /\ (hideAnim \/ starts))

(* ------------------------- metadata responses ------------------------- *)
\* the playable versions the server holds for an item: at the top level of a
\* flat payload, and under the first and the later episodes of a show
TopVersions(id) == <<[media |-> id, file |-> 1]>>
EpisodeVersions(id) == <<[media |-> id, file |-> 2]>>
LaterVersions(id) == <<[media |-> id, file |-> 3]>>

Episode(v) == [versions |-> v]
Season(eps) == [episodes |-> eps]
Payload(err, seasons, versions) ==
    [error |-> err, seasons |-> seasons, versions |-> versions]

\* a show: two seasons of two episodes, the first episode first
Show(id) ==
    Some(<<Season(Some(<<Episode(Some(EpisodeVersions(id))),
                         Episode(Some(LaterVersions(id)))>>)),
           Season(Some(<<Episode(Some(LaterVersions(id)))>>))>>)

\* payloads of the shapes the endpoint documents
GoodPayloads(id) ==
    { Payload(FALSE, None, Some(TopVersions(id))),
      Payload(FALSE, None, Some(<<>>)),
      Payload(FALSE, Show(id), None),
      Payload(FALSE, Show(id), Some(TopVersions(id))) }

\* payloads that carry the error indicator
ErrorPayloads(id) ==
    { Payload(TRUE, None, None),
      Payload(TRUE, None, Some(TopVersions(id))),
      Payload(TRUE, Show(id), None) }

\* payloads with a field missing on the path the code indexes
MalformedPayloads(id) ==
    { Payload(FALSE, None, None),
      Payload(FALSE, Some(<<>>), Some(TopVersions(id))),
      Payload(FALSE, Some(<<Season(None)>>), None),
      Payload(FALSE, Some(<<Season(Some(<<>>))>>), None),
      Payload(FALSE, Some(<<Season(Some(<<Episode(None)>>))>>), None) }

Payloads(id) == GoodPayloads(id) \cup ErrorPayloads(id) \cup MalformedPayloads(id)

\* What a request can come back with: the fetch promise rejects (net FALSE),
\* or resolves with a status and a body that parses as JSON or does not.
Response(net, status, parses, payload) ==
    [net |-> net, status |-> status, parses |-> parses, payload |-> payload]

Responses(id) ==
    {Response(FALSE, 0, FALSE, Payload(FALSE, None, None))}
    \cup {Response(TRUE, 500, TRUE, Payload(FALSE, None, Some(TopVersions(id))))}
    \cup {Response(TRUE, HTTP_OK, FALSE, Payload(FALSE, None, None))}
    \cup {Response(TRUE, HTTP_OK, TRUE, p) : p \in Payloads(id)}

\* the responses by item id, as a table
ResponseTable == [id \in Ids |-> Responses(id)]

\* the ways the continuation of the fetch effect ends
Throw == [end |-> "threw", value |-> None]
Return == [end |-> "returned", value |-> None]
Set(v) == [end |-> "set", value |-> v]

\* payload.seasons[0].episodes[0].versions: reading a property of undefined
\* throws a TypeError, reading a missing property gives undefined
FirstEpisodeVersions(payload) ==
    LET seasons == payload.seasons[1]
    IN  IF seasons = <<>> THEN Throw
        ELSE LET episodes == seasons[1].episodes
             IN  IF episodes = None THEN Throw
                 ELSE IF episodes[1] = <<>> THEN Throw
                 ELSE Set(episodes[1][1].versions)

\* the continuation without the check of the status
FetchContinuationIgnoresStatus(res) ==
    IF ~res.net THEN Throw
    ELSE IF ~res.parses THEN Throw
    ELSE IF res.payload.error THEN Return
    ELSE IF res.payload.seasons # None THEN FirstEpisodeVersions(res.payload)
    ELSE Set(res.payload.versions)

\* the continuation that looks for the top-level versions first
FetchContinuationPrefersFlat(res) ==
    IF ~res.net THEN Throw
    ELSE IF res.status # HTTP_OK THEN Return
    ELSE IF ~res.parses THEN Throw
    ELSE IF res.payload.error THEN Return
    ELSE IF res.payload.versions # None THEN Set(res.payload.versions)
    ELSE IF res.payload.seasons # None THEN FirstEpisodeVersions(res.payload)
    ELSE Set(res.payload.versions)

\* the body of the async function of the fetch effect, from the response on
FetchContinuation(res) ==
    IF ~res.net THEN Throw
    ELSE IF res.status # HTTP_OK THEN Return
    ELSE IF ~res.parses THEN Throw
    ELSE IF res.payload.error THEN Return
    ELSE IF res.payload.seasons # None THEN FirstEpisodeVersions(res.payload)
    ELSE Set(res.payload.versions)

\* setMediaVersions(v) of the instance the continuation closes over: a state
\* update of an instance that is no longer mounted is dropped
setMediaVersions(p, live, v) ==
    IF live THEN [p EXCEPT !.mediaVersions = v] ELSE p

\* a sequence without its i-th element
Without(seq, i) ==
    [j \in 1..(Len(seq) - 1) |-> IF j < i THEN seq[j] ELSE seq[j + 1]]

\* the response to request i arrives and the continuation runs to its end
FetchSettles(i, res) ==
    /\ fetches' = Without(fetches, i)
    /\ LET out == FetchContinuation(res)
           seen == IF fetches[i].live THEN [popup EXCEPT !.last = out.end]
                   ELSE popup
       IN  popup' = IF out.end = "set"
                    THEN setMediaVersions(seen, fetches[i].live, out.value)
                    ELSE seen
    /\ UNCHANGED <<hovering, hoverTimeout, posterBlob, accentDone, accent,
                   timers, data, supplied, lastEvent, hideAnim>>

\* The parent re-renders the card with another summary. A mounted panel
\* re-renders with it (truncating the new genre array in place) and the
\* fetch effect runs again when the id differs.
ChangeData(d) ==
    /\ d # [id |-> data.id, genres |-> supplied]
    /\ supplied' = d.genres
    /\ IF Mounted
       THEN /\ data' = [d EXCEPT !.genres = TruncateGenres(d.genres)]
            /\ IF d.id # data.id
               THEN /\ popup.issued < MaxFetches /\ Len(fetches) < MaxFetches
                    /\ popup' = [popup EXCEPT
                                    !.genres = TruncateGenres(d.genres),
                                    !.issued = @ + 1]
                    /\ fetches' = IssueFetch(d.id, popup.issued + 1)
               ELSE /\ popup' = [popup EXCEPT
                                    !.genres = TruncateGenres(d.genres)]
                    /\ UNCHANGED fetches
       ELSE /\ data' = d
            /\ UNCHANGED <<popup, fetches>>
    /\ UNCHANGED <<hovering, hoverTimeout, posterBlob, accentDone, accent,
                   timers, lastEvent, hideAnim>>

\* The store hands out another credential (auth.token, an opaque value the
\* code only attaches to the request); the fetch effect of a mounted panel
\* runs again.
ChangeToken ==
    /\ IF Mounted
       THEN /\ popup.issued < MaxFetches /\ Len(fetches) < MaxFetches
            /\ popup' = [popup EXCEPT !.issued = @ + 1]
            /\ fetches' = IssueFetch(data.id, popup.issued + 1)
       ELSE UNCHANGED <<popup, fetches>>
    /\ UNCHANGED <<hovering, hoverTimeout, posterBlob, accentDone, accent,
                   timers, data, supplied, lastEvent, hideAnim>>

\* the setHovering prop: the host's setter of the card's hovering state
setHovering(h) ==
    \E x1 \in Xs, x2 \in Xs, w \in Widths, iw \in Viewports :
        SetHovering(h, x1, x2, w, iw)

\* the handler without the check of e.animationName
onAnimationEndOfAny(animationName) == setHovering(FALSE)

\* onAnimationEnd(e) on the root element of the mounted panel
onAnimationEnd(animationName) ==
    IF animationName # HideAnimation
    THEN UNCHANGED <<hovering, popup, data, fetches>>
    ELSE setHovering(FALSE)

\* An animation ends inside the panel: the panel's own exit animation when
\* it is playing, or an animation of a child at any time.
AnimationEnd(animationName) ==
    /\ Mounted
    /\ animationName = HideAnimation => hideAnim
    /\ onAnimationEnd(animationName)
    /\ HideAnimNext(FALSE)
    /\ UNCHANGED <<hoverTimeout, posterBlob, accentDone, accent, timers,
                   supplied, lastEvent>>

(* -------------------------------- Card -------------------------------- *)
Init ==
    /\ hovering = FALSE
    /\ hoverTimeout = UNDEFINED
    /\ posterBlob = UNDEFINED
    /\ accentDone = FALSE
    /\ accent = FallbackAccent
    /\ timers = [t \in Timers |-> NewTimer]
    /\ data \in Summaries
    /\ popup = NoPopup
    /\ fetches = <<>>
    /\ supplied = data.genres
    /\ lastEvent = "none"
    /\ hideAnim = FALSE

\* a clearTimeout that does not stop the timer
ClearTimeoutKeepsRunning(h) == timers

\* clearTimeout(h): a timer that has not expired yet never runs its callback
ClearTimeout(h) ==
    [timers EXCEPT ![h] = IF @.st = "pending" THEN Over("cancelled") ELSE @]

\* every timer still counting down has now seen a toggle
MarkCut(ts) ==
    [t \in Timers |-> IF ts[t].st = "pending" THEN [ts[t] EXCEPT !.cut = TRUE]
                      ELSE ts[t]]

\* handleMouseHover() without the return that ends the cancelling branch:
\* the handler falls through and starts the next timer at once
handleMouseHoverFallsThrough ==
    \E t \in Timers :
        /\ timers[t].st = "unused"
        /\ \A u \in Timers : u < t => timers[u].st # "unused"
        /\ timers' = [MarkCut(IF IsNullish(hoverTimeout) THEN timers
                               ELSE ClearTimeout(hoverTimeout))
                         EXCEPT ![t].st = "pending", ![t].left = D]
        /\ hoverTimeout' = t
        /\ IF IsNullish(hoverTimeout)
           THEN UNCHANGED <<hovering, popup, data, fetches>>
           ELSE SetHovering(FALSE, 0, 0, 0, 0)

\* handleMouseHover(): bound to both onMouseEnter and onMouseLeave
handleMouseHover ==
    IF ~IsNullish(hoverTimeout)
    THEN /\ timers' = MarkCut(ClearTimeout(hoverTimeout))
         /\ hoverTimeout' = NULL
         /\ SetHovering(FALSE, 0, 0, 0, 0)
    ELSE /\ \E t \in Timers :
              /\ timers[t].st = "unused"
              /\ \A u \in Timers : u < t => timers[u].st # "unused"
              /\ timers' = [MarkCut(timers) EXCEPT ![t].st = "pending",
                                                   ![t].left = D]
              /\ hoverTimeout' = t
         /\ UNCHANGED <<hovering, popup, data, fetches>>

\* onMouseEnter={this.handleMouseHover}
MouseEnter ==
    /\ handleMouseHover
    /\ lastEvent' = "enter"
    /\ HideAnimNext(FALSE)
    /\ UNCHANGED <<posterBlob, accentDone, accent, supplied>>

\* onMouseLeave={this.handleMouseHover}; a leave is the request to close a
\* mounted panel
MouseLeave ==
    /\ handleMouseHover
    /\ lastEvent' = "leave"
    /\ HideAnimNext(TRUE)
    /\ UNCHANGED <<posterBlob, accentDone, accent, supplied>>

\* time passes while a timer counts down
Tick ==
    /\ \E t \in Timers : timers[t].st = "pending" /\ timers[t].left > 0
    /\ timers' = [t \in Timers |->
                    IF timers[t].st = "pending"
                    THEN [timers[t] EXCEPT !.left =
                            IF @ > TickMs THEN @ - TickMs ELSE 0]
                    ELSE timers[t]]
    /\ UNCHANGED <<hovering, hoverTimeout, posterBlob, accentDone, accent,
                   data, popup, fetches, supplied, lastEvent,
                   hideAnim>>

\* renderCardPopout() that starts the extraction whether or not a poster
\* has been reported
TimerFiresAlwaysExtracts(t) ==
    /\ timers[t].st = "pending"
    /\ timers[t].left = 0
    /\ IF ~accentDone
       THEN /\ timers' = [timers EXCEPT ![t].st = "awaiting",
                                        ![t].blob = posterBlob]
            /\ UNCHANGED <<hovering, popup, data, fetches>>
       ELSE /\ timers' = [timers EXCEPT ![t] = Over("done")]
            /\ \E x1 \in Xs, x2 \in Xs, w \in Widths, iw \in Viewports :
                   SetHovering(~hovering, x1, x2, w, iw)
    /\ HideAnimNext(FALSE)
    /\ UNCHANGED <<hoverTimeout, posterBlob, accentDone, accent,
                   supplied, lastEvent>>

\* The timer expires and calls renderCardPopout(): up to the await when the
\* accent is to be extracted, to the end otherwise.
TimerFires(t) ==
    /\ timers[t].st = "pending"
    /\ timers[t].left = 0
    /\ IF ~accentDone /\ posterBlob # UNDEFINED
       THEN /\ timers' = [timers EXCEPT ![t].st = "awaiting",
                                        ![t].blob = posterBlob]
            /\ UNCHANGED <<hovering, popup, data, fetches>>
       ELSE /\ timers' = [timers EXCEPT ![t] = Over("done")]
            /\ \E x1 \in Xs, x2 \in Xs, w \in Widths, iw \in Viewports :
                   SetHovering(~hovering, x1, x2, w, iw)
    /\ HideAnimNext(FALSE)
    /\ UNCHANGED <<hoverTimeout, posterBlob, accentDone, accent,
                   supplied, lastEvent>>

\* The palette promise settles and renderCardPopout() resumes. A palette
\* without a Vibrant swatch (color.Vibrant is null) and a rejected promise
\* both end the async function there, with a rejection nobody handles.
PaletteSettles(t, outcome) ==
    /\ timers[t].st = "awaiting"
    /\ timers' = [timers EXCEPT ![t] = Over("done")]
    /\ IF outcome = "ok"
       THEN /\ accent' = VibrantAccent(timers[t].blob)
            /\ \E x1 \in Xs, x2 \in Xs, w \in Widths, iw \in Viewports :
                   SetHovering(~hovering, x1, x2, w, iw)
       ELSE UNCHANGED <<hovering, accent, popup, data, fetches>>
    /\ HideAnimNext(FALSE)
    /\ UNCHANGED <<hoverTimeout, posterBlob, accentDone, supplied,
                   lastEvent>>

\* onLoadPoster(blob): the lazy image reports the loaded cover
onLoadPoster(b) ==
    /\ posterBlob = UNDEFINED
    /\ posterBlob' = b
    /\ UNCHANGED <<hovering, hoverTimeout, accentDone, accent, timers, data,
                   popup, fetches, supplied, lastEvent,
                   hideAnim>>

Next ==
    \/ MouseEnter
    \/ MouseLeave
    \/ Tick
    \/ \E t \in Timers : TimerFires(t)
    \/ \E t \in Timers, o \in {"ok", "noVibrant", "reject"} : PaletteSettles(t, o)
    \/ \E b \in Blobs : onLoadPoster(b)
    \/ \E i \in 1..Len(fetches) : \E res \in ResponseTable[fetches[i].id] :
           FetchSettles(i, res)
    \/ \E d \in Summaries : ChangeData(d)
    \/ ChangeToken
    \/ \E n \in {HideAnimation, OtherAnimation} : AnimationEnd(n)

Spec == Init /\ [][Next]_vars

(* ------------- the card under a pointer that enters and leaves --------- *)
\* The browser delivers mouseenter and mouseleave of an element in turns,
\* the first one an enter.
PointerEnters == lastEvent # "enter" /\ MouseEnter
PointerLeaves == lastEvent = "enter" /\ MouseLeave

AlternatingNext ==
    \/ PointerEnters
    \/ PointerLeaves
    \/ Tick
    \/ \E t \in Timers : TimerFires(t)
    \/ \E t \in Timers, o \in {"ok", "noVibrant", "reject"} : PaletteSettles(t, o)
    \/ \E b \in Blobs : onLoadPoster(b)
    \/ \E i \in 1..Len(fetches) : \E res \in ResponseTable[fetches[i].id] :
           FetchSettles(i, res)
    \/ \E d \in Summaries : ChangeData(d)
    \/ ChangeToken
    \/ \E n \in {HideAnimation, OtherAnimation} : AnimationEnd(n)

AlternatingSpec == Init /\ [][AlternatingNext]_vars

(* ------------------- the first render of a panel, alone ---------------- *)
\* String(n) of a non-negative integer, as its sequence of decimal digits
RECURSIVE Digits(_)
Digits(n) == IF n < 10 THEN <<n>> ELSE Append(Digits(n \div 10), n % 10)

\* s.slice(-k): the last k characters, all of s when it is shorter
SliceLast(s, k) == IF Len(s) <= k THEN s ELSE SubSeq(s, Len(s) - k + 1, Len(s))

\* ("0" + n).slice(-2)
Pad2(n) == SliceLast(<<0>> \o Digits(n), 2)

\* the length that takes the minutes of the whole duration
lengthOfWholeMinutes(duration) ==
    [hh |-> Pad2(duration \div 3600),
     mm |-> Pad2(duration \div 60),
     ss |-> Pad2((duration % 3600) % 60)]

\* const length = { hh, mm, ss }; Math.floor of a quotient of non-negative
\* integers is the integer quotient
length(duration) ==
    [hh |-> Pad2(duration \div 3600),
     mm |-> Pad2((duration % 3600) \div 60),
     ss |-> Pad2((duration % 3600) % 60)]

\* durations of the catalog, in seconds: from nothing up to more than
\* MaxHours hours
Hours == {0, 1, 9, 10, 99, MaxHours, MaxHours + 23}
Sixties == {0, 1, 9, 10, 59}
Durations == {h * 3600 + m * 60 + s : h \in Hours, m \in Sixties, s \in Sixties}

\* measured left edges of the panel, up to and past the one where its right
\* edge meets window.innerWidth - 5
Edges == {100, 895, 896, 1000}

\* A CardPopup instance with its surroundings: the hook state, what it
\* rendered (genres, length), and the geometry of its root element and of
\* the window.
Panel(x, width, innerWidth) ==
    [overflowing |-> NoPopup.overflowing, direction |-> NoPopup.direction,
     mediaVersions |-> NoPopup.mediaVersions, genres |-> NoPopup.genres,
     measures |-> 0, issued |-> 0, last |-> "none",
     length |-> None, x |-> x, width |-> width, innerWidth |-> innerWidth]

\* The card has just set hovering after its first timer fired, and React
\* has created the CardPopup for a summary of the catalog.
PanelInit ==
    /\ hovering = TRUE
    /\ hoverTimeout = 1
    /\ posterBlob = UNDEFINED
    /\ accentDone = FALSE
    /\ accent = FallbackAccent
    /\ timers = [t \in Timers |-> IF t = 1 THEN Over("done") ELSE NewTimer]
    /\ \E id \in Ids, d \in Durations :
           data = [id |-> id, genres |-> GenresOf(id), duration |-> d]
    /\ \E x \in Edges, w \in Widths, iw \in Viewports : popup = Panel(x, w, iw)
    /\ fetches = <<>>
    /\ supplied = data.genres
    /\ lastEvent = "enter"
    /\ hideAnim = FALSE

\* the body of CardPopup up to its return: the length and the genres
PanelRender ==
    /\ popup.length = None
    /\ popup' = [popup EXCEPT !.length = Some(length(data.duration)),
                              !.genres = TruncateGenres(data.genres)]
    /\ data' = [data EXCEPT !.genres = TruncateGenres(data.genres)]
    /\ UNCHANGED <<hovering, hoverTimeout, posterBlob, accentDone, accent,
                   timers, fetches, supplied, lastEvent, hideAnim>>

\* the effects after the first render: placement, and the metadata request
PanelEffects ==
    /\ popup.length # None
    /\ popup.measures = 0
    /\ popup' = [PlacementEffect(popup, popup.x, popup.x, popup.width,
                                 popup.innerWidth) EXCEPT !.issued = 1]
    /\ fetches' = IssueFetch(data.id, 1)
    /\ UNCHANGED <<hovering, hoverTimeout, posterBlob, accentDone, accent,
                   timers, data, supplied, lastEvent, hideAnim>>

PanelNext == PanelRender \/ PanelEffects

PanelSpec == PanelInit /\ [][PanelNext]_vars

(* ------------------------------ properties ---------------------------- *)
\* steps, recognised by what they change
Toggled == hoverTimeout' # hoverTimeout
MountStep == ~hovering /\ hovering'
UnmountStep == hovering /\ ~hovering'
Started(t) == timers[t].st = "pending" /\ timers'[t].st \in {"awaiting", "done"}
Resumed(t) == timers[t].st = "awaiting" /\ timers'[t].st = "done"
Awaiting == {t \in Timers : timers[t].st = "awaiting"}
\* the timers that ran their callback
Expired == {t \in Timers : timers[t].st \in {"awaiting", "done"}}

\* the parts of C1
C1_Uninterrupted(t) == ~timers[t].cut /\ timers[t].left = 0
C1_Step ==
    /\ MountStep => \E t \in Timers :
                        \/ Started(t) /\ C1_Uninterrupted(t)
                        \/ Resumed(t)
    /\ \A t \in Timers : Started(t) => C1_Uninterrupted(t)
    /\ Len(fetches') > Len(fetches) => hovering'
C1_NeverExpired ==
    Expired = {}
        => /\ ~hovering
           /\ popup = NoPopup
           /\ fetches = <<>>
           /\ accent = FallbackAccent
\* C1: the panel is mounted only by the callback of a timer that counted its
\* whole delay down with no toggle in between, and no callback runs (and no
\* accent extraction starts) for any other timer; as long as no callback has
\* run the panel is not mounted, no request is in flight and the accent is
\* untouched.
C1_ActivationNeedsUninterruptedDelay == []C1_NeverExpired /\ [][C1_Step]_vars

\* C1 witness: the panel is mounted in a run in which an earlier timer was
\* cancelled by a toggle.
C1_Witness ==
    /\ hovering
    /\ \E t \in Timers : timers[t].st = "cancelled"
    /\ \E t \in Timers : timers[t].st = "done"

\* the parts of C2
C2_Idle == IsNullish(hoverTimeout) /\ ~hovering /\ Awaiting = {}
C2_Armed ==
    /\ ~IsNullish(hoverTimeout)
    /\ timers[hoverTimeout].st = "pending"
    /\ ~hovering
    /\ Awaiting = {}
C2_NoSideEffect ==
    /\ ~hovering'
    /\ popup' = popup
    /\ Len(fetches') <= Len(fetches)
    /\ accent' = accent
    /\ Awaiting' = {}
C2_Step ==
    /\ (C2_Idle /\ Toggled) => C2_Armed' /\ C2_NoSideEffect
    /\ (C2_Armed /\ ~Toggled /\ ~Started(hoverTimeout)) => C2_NoSideEffect
    /\ (C2_Armed /\ Toggled)
          => /\ timers'[hoverTimeout].st = "cancelled"
             /\ hoverTimeout' = NULL
             /\ C2_Idle'
             /\ C2_NoSideEffect
    /\ \A t \in Timers :
          timers[t].st = "cancelled" => timers'[t].st = "cancelled"
\* C2: from an idle card (no timer handle, panel not mounted, no activation
\* routine suspended) the first toggle only starts a timer; until the second
\* toggle nothing but that timer's expiry mounts the panel, issues a request,
\* runs an extraction or changes the accent; the second toggle, arriving
\* while the timer still counts down, cancels it and leaves the card idle
\* with the same panel state, requests and accent; a cancelled timer stays
\* cancelled for ever.
C2_ToggleTwiceIsNoOp == [][C2_Step]_vars

\* C2 witness: the card is idle again after a timer was cancelled, nothing
\* has been mounted, requested or extracted.
C2_Witness ==
    /\ hoverTimeout = NULL
    /\ \E t \in Timers : timers[t].st = "cancelled"
    /\ C2_Idle
    /\ fetches = <<>>
    /\ Expired = {}
    /\ accent = FallbackAccent

\* the parts of C3
C3_SingleEnter ==
    /\ hoverTimeout = 1
    /\ lastEvent = "enter"
    /\ timers[1].st = "done"
\* C3: when the only pointer event so far is one enter on the fresh card and
\* the callback of its timer has run to its end, the panel is mounted, stays
\* mounted, and has issued its metadata request.
C3_SingleEnterActivatesOnce ==
    C3_SingleEnter => hovering /\ popup.issued >= 1 /\ popup.measures >= 1

\* the parts of C4
C4_Step ==
    /\ (hovering /\ Toggled /\ lastEvent' = "leave") => hovering'
    /\ (UnmountStep /\ lastEvent' = "leave")
          => hideAnim /\ ~Toggled /\ timers' = timers
\* C4: a pointer leave that finds the panel mounted keeps it mounted, and
\* once the pointer has left the panel is unmounted only by the end of its
\* exit animation, never by the pointer event itself.
C4_CloseWaitsForExitAnimation == [][C4_Step]_vars

\* the parts of C5
C5_Stale(f) == ~f.live \/ f.id # data.id
C5_Step ==
    \A i \in 1..Len(fetches) :
        (fetches' = Without(fetches, i) /\ C5_Stale(fetches[i]))
            => popup'.mediaVersions = popup.mediaVersions
\* C5: a response that belongs to an unmounted panel, or to an item id that
\* is no longer the displayed one, never changes the version list.
C5_StaleResponseIsDiscarded == [][C5_Step]_vars

\* the parts of C6
C6_Failure(res) ==
    res.net /\ (res.status # 200 \/ (res.parses /\ res.payload.error))
C6_Failures == [id \in Ids |-> {r \in Responses(id) : C6_Failure(r)}]
C6_Step ==
    \A i \in 1..Len(fetches) :
        fetches' = Without(fetches, i) =>
        \A res \in C6_Failures[fetches[i].id] :
            FetchSettles(i, res)
            => /\ popup'.mediaVersions = popup.mediaVersions
               /\ fetches[i].live => popup'.last = "returned"
               /\ ~fetches[i].live => popup' = popup
\* C6: a response with a non-success status, or with a success status and a
\* payload that carries the error indicator, leaves the version list as it
\* was and raises nothing.
C6_FailedResponseKeepsVersions == [][C6_Step]_vars

\* C6 witness: the mounted panel shows a list it fetched earlier, after a
\* later request of its own came back and its continuation just returned.
C6_Witness ==
    /\ Mounted
    /\ popup.last = "returned"
    /\ popup.issued = 2
    /\ fetches = <<>>
    /\ popup.mediaVersions \notin {None, Some(<<>>)}

\* the parts of C7
C7_Success(res) ==
    /\ res.net /\ res.status = 200 /\ res.parses /\ ~res.payload.error
    /\ res.payload.seasons # None =>
          /\ Len(res.payload.seasons[1]) > 0
          /\ res.payload.seasons[1][1].episodes # None
          /\ Len(res.payload.seasons[1][1].episodes[1]) > 0
C7_Expected(payload) ==
    IF payload.seasons # None
    THEN payload.seasons[1][1].episodes[1][1].versions
    ELSE payload.versions
C7_Successes == [id \in Ids |-> {r \in Responses(id) : C7_Success(r)}]
C7_Step ==
    \A i \in 1..Len(fetches) :
        (fetches' = Without(fetches, i) /\ fetches[i].live) =>
        \A res \in C7_Successes[fetches[i].id] :
            FetchSettles(i, res)
            => popup'.mediaVersions = C7_Expected(res.payload)
\* C7: a successful, error-free response replaces the version list of its
\* panel by the versions of the first episode of the first season when the
\* payload has seasons, and by the top-level versions otherwise, whatever the
\* list held before.
C7_SuccessReplacesVersions == [][C7_Step]_vars

\* C7 witness: the panel shows the versions of the first episode of the
\* show it displays.
C7_Witness ==
    /\ Mounted
    /\ popup.last = "set"
    /\ popup.mediaVersions = Some(EpisodeVersions(data.id))

\* C8: the genre list of the caller-supplied summary is the one the caller
\* supplied, before and after the panel rendered.
C8_SuppliedGenresUntouched == data.genres = supplied

\* the parts of C9
C9_Min(a, b) == IF a < b THEN a ELSE b
\* C9: the genre list the mounted panel renders is the first min(N, 3)
\* genres of the N the caller supplied, in their order.
C9_RenderedGenresArePrefix ==
    Mounted => popup.genres = SubSeq(supplied, 1, C9_Min(Len(supplied), 3))

\* C9 witness: the panel is mounted for a summary with more than 3 genres.
C9_Witness == Mounted /\ Len(supplied) > 3 /\ Len(popup.genres) = 3

\* the parts of C10
C10_Computed == accent # FallbackAccent
C10_Step ==
    C10_Computed =>
        /\ \A u \in Timers :
              ~(timers[u].st = "pending" /\ timers'[u].st = "awaiting")
        /\ accent' = accent
\* C10: once an activation has extracted the accent successfully, no later
\* activation starts the extraction again and the accent keeps its value.
C10_AccentExtractedOnce == [][C10_Step]_vars

\* the parts of C11
C11_Step ==
    /\ accent' # accent
          => \E t \in Timers :
                 /\ Resumed(t)
                 /\ timers[t].blob # UNDEFINED
                 /\ accent' = VibrantAccent(timers[t].blob)
    /\ \A t \in Timers :
          (Started(t) /\ posterBlob = UNDEFINED)
              => /\ timers'[t].st = "done"
                 /\ MountStep
                 /\ accent' = FallbackAccent
\* C11: the accent is the fallback as long as no poster has been reported,
\* and it changes only when a suspended activation routine resumes with the
\* swatch of the poster it read; an activation that finds no poster reported
\* does not start an extraction, it ends at once and mounts the panel with
\* the fallback accent.
C11_FallbackUntilExtracted ==
    [](posterBlob = UNDEFINED => accent = FallbackAccent) /\ [][C11_Step]_vars

\* C11 witness: the panel was mounted by an activation that ran before any
\* poster was reported; the accent is the fallback.
C11_Witness ==
    /\ Mounted
    /\ posterBlob = UNDEFINED
    /\ accent = FallbackAccent
    /\ \E t \in Timers : timers[t].st = "done"

\* the parts of C12
C12_IsDigit(c) == c \in 0..9
C12_TwoDigits(f) == Len(f) = 2 /\ C12_IsDigit(f[1]) /\ C12_IsDigit(f[2])
C12_Value(f) == 10 * f[1] + f[2]
C12_Length(h, m, s) ==
    [hh |-> <<h \div 10, h % 10>>, mm |-> <<m \div 10, m % 10>>,
     ss |-> <<s \div 10, s % 10>>]
\* C12: the rendered length of a duration d has three fields of exactly two
\* decimal digits each; they read floor(d / 3600) (its last two digits),
\* floor((d mod 3600) / 60) and (d mod 3600) mod 60, so that below 100 hours
\* hh * 3600 + mm * 60 + ss = d; 3661 renders as 01:01:01, 59 as 00:00:59 and
\* 0 as 00:00:00.
C12_LengthIsPaddedHhMmSs ==
    popup.length # None =>
        LET d == data.duration
            l == popup.length[1]
        IN  /\ C12_TwoDigits(l.hh) /\ C12_TwoDigits(l.mm) /\ C12_TwoDigits(l.ss)
            /\ C12_Value(l.hh) = (d \div 3600) % 100
            /\ C12_Value(l.mm) = (d % 3600) \div 60
            /\ C12_Value(l.ss) = (d % 3600) % 60
            /\ C12_Value(l.mm) < 60 /\ C12_Value(l.ss) < 60
            /\ d < 100 * 3600
                  => C12_Value(l.hh) * 3600 + C12_Value(l.mm) * 60
                         + C12_Value(l.ss) = d
            /\ d = 3661 => l = C12_Length(1, 1, 1)
            /\ d = 59 => l = C12_Length(0, 0, 59)
            /\ d = 0 => l = C12_Length(0, 0, 0)

\* C12 witness: a panel rendered 01:01:01 for a duration of 3661 seconds.
C12_Witness ==
    /\ data.duration = 3661
    /\ popup.length = Some(C12_Length(1, 1, 1))

\* the parts of C13
C13_Placed == popup.measures > 0
C13_Side == IF popup.direction = "card-popup-left" THEN "Left"
            ELSE IF popup.direction = "card-popup-right" THEN "Right"
            ELSE "none"
\* C13: once the placement effect has run on a freshly mounted panel whose
\* root element measures {x, width} in a window of width W, the side is Left
\* when x + width > W - 5 and Right otherwise, and the overflowing flag says
\* the same; x = 1000, width = 300, W = 1200 gives Left and x = 100 gives
\* Right.
C13_SideFollowsGeometry ==
    C13_Placed =>
        /\ C13_Side = IF popup.x + popup.width > popup.innerWidth - 5
                      THEN "Left" ELSE "Right"
        /\ popup.overflowing = (C13_Side = "Left")
        /\ (popup.x = 1000 /\ popup.width = 300 /\ popup.innerWidth = 1200)
              => C13_Side = "Left"
        /\ (popup.x = 100 /\ popup.width = 300 /\ popup.innerWidth = 1200)
              => C13_Side = "Right"

\* C13 witness: a placed panel whose right edge just meets the margin stays
\* on the right.
C13_Witness ==
    /\ C13_Placed
    /\ popup.x + popup.width = popup.innerWidth - 5
    /\ C13_Side = "Right"

\* the parts of C14
C14_Quiet == ~Toggled /\ \A t \in Timers : ~Started(t) /\ ~Resumed(t)
C14_Step ==
    /\ AnimationEnd(OtherAnimation) => UNCHANGED vars
    /\ AnimationEnd(HideAnimation)
          => /\ UnmountStep
             /\ popup' = NoPopup
             /\ UNCHANGED <<hoverTimeout, timers, accent, data, lastEvent>>
    /\ (UnmountStep /\ C14_Quiet) => hideAnim /\ AnimationEnd(HideAnimation)
C15_Step ==
    \A t \in Timers : (Started(t) \/ Resumed(t)) => ~UnmountStep
\* C15: no step of an activation routine, neither the timer's callback
\* starting nor its resumption after the accent extraction, unmounts a panel
\* that is mounted.
C15_TimerNeverUnmounts == [][C15_Step]_vars

\* the parts of C16
C16_Malformed ==
    [id \in Ids |-> {Response(TRUE, 200, TRUE, q) : q \in MalformedPayloads(id)}]
C16_Step ==
    \A i \in 1..Len(fetches) :
        fetches' = Without(fetches, i) =>
        \A res \in C16_Malformed[fetches[i].id] :
            FetchSettles(i, res)
            => /\ popup'.mediaVersions = popup.mediaVersions
               /\ popup'.mediaVersions # None
               /\ fetches[i].live => popup'.last = "returned"
\* C16: a successful, error-free response whose payload lacks a field on the
\* path to the versions (empty seasons list, first season without episodes,
\* first episode without versions, flat payload without versions) leaves the
\* version list as it was, never undefined, and raises nothing.
C16_MalformedPayloadKeepsVersions == [][C16_Step]_vars

\* C17: while a panel is mounted its placement effect has measured the
\* geometry exactly once, also when it switched the side to Left.
C17_PlacementMeasuredOnce == Mounted => popup.measures = 1

\* the parts of C18
C18_Step ==
    \A t \in Timers :
        (Resumed(t) /\ ~hovering)
            => /\ hovering'
               /\ accent' # accent => accent' = VibrantAccent(timers[t].blob)
\* C18: an activation routine that suspended on the accent extraction while
\* no panel was mounted ends with the panel mounted, whether the extraction
\* delivered a swatch or failed; a failed one leaves the accent as it was.
C18_ExtractionFailureStillMounts == [][C18_Step]_vars

\* C19: under a pointer that enters and leaves in turns, whenever the panel
\* is mounted the last pointer event was an enter.
C19_MountedOnlyUnderPointer == hovering => lastEvent = "enter"

\* the parts of C20
C20_FetchedFor(id, versions) ==
    \A k \in 1..Len(versions) : versions[k].media = id
\* C20: the version list a mounted panel hands to the play button, when it is
\* a list, is empty or holds versions fetched for the item id handed over
\* with it.
C20_VersionsBelongToItem ==
    (Mounted /\ popup.mediaVersions # None)
        => C20_FetchedFor(data.id, popup.mediaVersions[1])

====
